---- MODULE Spec2Model ----
(***************************************************************************)
(* A model of simple_sams_api/base.py: the SAMSapi client (session cookie  *)
(* jar, login, the two fetches) and the three phenopacket helpers.         *)
(*                                                                         *)
(* Python values are modelled as follows.                                  *)
(*   str   a sequence of one-character strings, so that formatting,        *)
(*         joining, stripping and comparison work on characters;           *)
(*   dict  a function whose domain is the set of keys that are present;    *)
(*   list  a sequence; a list that the program can alias or rebind lives   *)
(*         in the heap (lists) and is named by its address.                *)
(* Cookie names, exception names and URLs are only ever compared; they are  *)
(* TLA+ strings.                                                           *)
(* A call's outcome is a record [raised, value]: raised = "None" when the  *)
(* call returned value, otherwise the name of the exception it raised.     *)
(***************************************************************************)
EXTENDS Integers, Sequences, FiniteSets, TLC

VARIABLES
    cookies,    \* SAMSapi.session.cookies: cookie name -> value
    nrequests,  \* how many HTTP requests the session has sent
    ret,        \* the last call on the client: what was called, the requests
                \* it sent, the response it got, its outcome
    dicts,      \* heap: address -> phenopacket dict (list keys hold list addresses)
    lists,      \* heap: address -> list of feature / disease dicts
    prev,       \* the helper call before the last one
    last        \* the last helper call: what was called, on what, its outcome

clientVars == <<cookies, nrequests, ret>>

helperVars == <<dicts, lists, prev, last>>

vars == <<cookies, nrequests, ret, dicts, lists, prev, last>>

-----------------------------------------------------------------------------
(* Bounds of the model *)

\* longest list of terms drawn for the extractors
MaxTerms == 2
\* longest phenotypicFeatures list drawn for the onset filter
MaxLen == 3
\* longest diseases list drawn in Init
MaxDiseases == 2
\* number of list objects the heap may hold (each filter call allocates two)
MaxLists == 6
\* number of phenopacket dicts the heap may hold (the first one and its copies)
MaxDicts == 2
\* most lines a credentials file drawn has
MaxLines == 3
\* number of HTTP requests a session sends before the model stops it
MaxRequests == 2

-----------------------------------------------------------------------------
(* Python built-ins used by base.py *)

EmptyDict == [k \in {} |-> 0]

Ok(v) == [raised |-> "None", value |-> v]

Raise(e) == [raised |-> e, value |-> <<>>]

\* a helper call as the model records it: before is the record as the call
\* found it
NoCall == [op |-> "none", rec |-> 0, arg |-> 0, raised |-> "None",
           value |-> <<>>, before |-> <<>>]

Call(op, rec, arg, outcome, before) ==
    [op |-> op, rec |-> rec, arg |-> arg, raised |-> outcome.raised,
     value |-> outcome.value, before |-> before]

\* the sequences over S of length at most n
SeqsUpTo(S, n) == UNION {[1..k -> S] : k \in 0..n}

\* d.get(key, default)
get(d, key, default) == IF key \in DOMAIN d THEN d[key] ELSE default

\* truth value of the 0 / 1 flag the records carry
truthy(v) == v # 0

\* join that also ends the string with the separator
RECURSIVE join_trailing(_, _)
join_trailing(sep, strs) ==
    IF strs = <<>> THEN <<>>
    ELSE strs[1] \o sep \o join_trailing(sep, Tail(strs))

\* sep.join(strs)
RECURSIVE join(_, _)
join(sep, strs) ==
    IF strs = <<>> THEN <<>>
    ELSE IF Len(strs) = 1 THEN strs[1]
    ELSE strs[1] \o sep \o join(sep, Tail(strs))

\* ord(c) for the characters timestamps are made of
ord(c) ==
    CASE c = "-" -> 45
      [] c = "0" -> 48
      [] c = "1" -> 49
      [] c = "2" -> 50
      [] c = "9" -> 57
      [] OTHER   -> 0

\* a < b on str: lexicographic by code point, a proper prefix is smaller
RECURSIVE str_lt(_, _)
str_lt(a, b) ==
    IF b = <<>> THEN FALSE
    ELSE IF a = <<>> THEN TRUE
    ELSE IF ord(Head(a)) # ord(Head(b)) THEN ord(Head(a)) < ord(Head(b))
    ELSE str_lt(Tail(a), Tail(b))

\* min(values) of a non-empty sequence: the first smallest element
RECURSIVE py_min(_)
py_min(values) ==
    IF Len(values) = 1 THEN values[1]
    ELSE LET m == py_min(Tail(values))
         IN  IF str_lt(m, values[1]) THEN m ELSE values[1]

\* max(values) of a non-empty sequence: the first largest element
RECURSIVE py_max(_)
py_max(values) ==
    IF Len(values) = 1 THEN values[1]
    ELSE LET m == py_max(Tail(values))
         IN  IF str_lt(values[1], m) THEN m ELSE values[1]

-----------------------------------------------------------------------------
(* The client *)

LOGIN_URL == "login.cgi"

EXPORT_PHENOPACKETS_URL == "ExportPhenopacket.cgi?export_all=1"

\* EXPORT_PHENOPACKET_BY_ID_URL.format(patient_id=patient_id)
EXPORT_PHENOPACKET_BY_ID_URL(patient_id) ==
    [path |-> "export_phenopacket.cgi", external_id |-> patient_id]

Request(method, url, data) == [method |-> method, url |-> url, data |-> data]

NoResponse == [status |-> 0, cookies |-> EmptyDict, json |-> FALSE, data |-> <<>>]

NoClientCall == [op |-> "none", args |-> <<>>, sent |-> <<>>,
                 response |-> NoResponse, raised |-> "None", value |-> <<>>]

ClientCall(op, args, sent, response, outcome) ==
    [op |-> op, args |-> args, sent |-> sent, response |-> response,
     raised |-> outcome.raised, value |-> outcome.value]

\* SAMSapi(): a new session with an empty cookie jar
ClientInit ==
    /\ cookies = EmptyDict
    /\ nrequests = 0
    /\ ret = NoClientCall

\* the property that looks for any cookie at all
loggedIn_any == DOMAIN cookies # {}

\* the property loggedIn: "SAMSI" in self.session.cookies
loggedIn == "SAMSI" \in DOMAIN cookies

\* resp.raise_for_status(): HTTPError for a 4xx or 5xx status
raise_for_status(resp) ==
    IF 400 <= resp.status /\ resp.status < 600 THEN Raise("HTTPError") ELSE Ok(<<>>)

\* the jar after the session has stored the cookies a response set
extract_cookies(jar, resp) == resp.cookies @@ jar

\* _login without the status check
_login_unchecked(username, password, resp) == Ok(<<>>)

\* the outcome of _login when the server answers the POST with resp
_login(username, password, resp) == raise_for_status(resp)

\* f.readlines(): the text cut after every newline; cur is the line being read
RECURSIVE readlines(_, _)
readlines(text, cur) ==
    IF text = <<>> THEN (IF cur = <<>> THEN <<>> ELSE <<cur>>)
    ELSE IF Head(text) = "\n"
         THEN <<Append(cur, "\n")>> \o readlines(Tail(text), <<>>)
         ELSE readlines(Tail(text), Append(cur, Head(text)))

Whitespace == {" ", "\n"}

\* l.strip(): l without the whitespace at its two ends
RECURSIVE strip(_)
strip(l) ==
    IF l = <<>> THEN <<>>
    ELSE IF Head(l) \in Whitespace THEN strip(Tail(l))
    ELSE IF l[Len(l)] \in Whitespace THEN strip(SubSeq(l, 1, Len(l) - 1))
    ELSE l

\* open(credentials_file) and the unpacking of the stripped lines into
\* username, password: the pair, or the exception raised before any request
read_credentials(file) ==
    IF ~file.readable THEN Raise("OSError")
    ELSE LET stripped == [i \in 1..Len(readlines(file.text, <<>>)) |->
                             strip(readlines(file.text, <<>>)[i])]
         IN  IF Len(stripped) # 2 THEN Raise("ValueError")
             ELSE Ok([username |-> stripped[1], password |-> stripped[2]])

\* get_phenopacket that returns whatever record the server sent
get_phenopacket_unchecked(patient_id, resp) ==
    IF raise_for_status(resp).raised # "None" THEN Raise("HTTPError")
    ELSE IF ~resp.json THEN Raise("JSONDecodeError")
    ELSE Ok(resp.data)

\* the outcome of get_phenopacket when the server answers the GET with resp
get_phenopacket(patient_id, resp) ==
    IF raise_for_status(resp).raised # "None" THEN Raise("HTTPError")
    ELSE IF ~resp.json THEN Raise("JSONDecodeError")
    ELSE LET patient_data == resp.data
         IN  IF "subject" \notin DOMAIN patient_data
                  \/ "id" \notin DOMAIN patient_data["subject"]
             THEN Raise("KeyError")
             ELSE IF patient_data["subject"]["id"] # patient_id
             THEN Raise("RuntimeError")
             ELSE Ok(patient_data)

\* the outcome of get_phenopackets when the server answers the GET with resp
get_phenopackets(resp) ==
    IF raise_for_status(resp).raised # "None" THEN Raise("HTTPError")
    ELSE IF ~resp.json THEN Raise("JSONDecodeError")
    ELSE Ok(resp.data)

\* self.session.post / self.session.get: the request goes out and the jar takes
\* the cookies of the response, whatever its status
SessionRequest(resp) ==
    /\ nrequests < MaxRequests
    /\ nrequests' = nrequests + 1
    /\ cookies' = extract_cookies(cookies, resp)

\* login_with_username(username, password), the server answering with resp
LoginWithUsername(username, password, resp) ==
    /\ SessionRequest(resp)
    /\ ret' = ClientCall("login_with_username",
                         [username |-> username, password |-> password],
                         <<Request("POST", LOGIN_URL,
                                   [email |-> username, password |-> password])>>,
                         resp, _login(username, password, resp))
    /\ UNCHANGED helperVars

\* login_with_credentials_file(credentials_file): the call ends before any
\* request when the credentials cannot be read, and otherwise logs in, the
\* server answering with one of resps
LoginWithCredentialsFile(file, resps) ==
    /\ LET credentials == read_credentials(file)
       IN  IF credentials.raised # "None"
           THEN /\ ret' = ClientCall("login_with_credentials_file", file, <<>>,
                                     NoResponse, credentials)
                /\ UNCHANGED <<cookies, nrequests>>
           ELSE \E resp \in resps :
                /\ SessionRequest(resp)
                /\ ret' = ClientCall("login_with_credentials_file", file,
                                     <<Request("POST", LOGIN_URL,
                                               [email |-> credentials.value.username,
                                                password |-> credentials.value.password])>>,
                                     resp,
                                     _login(credentials.value.username,
                                            credentials.value.password, resp))
    /\ UNCHANGED helperVars

\* get_phenopackets(), the server answering with resp
GetPhenopackets(resp) ==
    /\ SessionRequest(resp)
    /\ ret' = ClientCall("get_phenopackets", <<>>,
                         <<Request("GET", EXPORT_PHENOPACKETS_URL, <<>>)>>,
                         resp, get_phenopackets(resp))
    /\ UNCHANGED helperVars

\* get_phenopacket(patient_id), the server answering with resp
GetPhenopacket(patient_id, resp) ==
    /\ SessionRequest(resp)
    /\ ret' = ClientCall("get_phenopacket", patient_id,
                         <<Request("GET", EXPORT_PHENOPACKET_BY_ID_URL(patient_id),
                                   <<>>)>>,
                         resp, get_phenopacket(patient_id, resp))
    /\ UNCHANGED helperVars

\* api.loggedIn read by the caller
ReadLoggedIn ==
    /\ ret' = ClientCall("loggedIn", <<>>, <<>>, NoResponse, Ok(loggedIn))
    /\ UNCHANGED <<cookies, nrequests>>
    /\ UNCHANGED helperVars

\* api.session.cookies.set(name, "token") by the caller
CookiesSet(name) ==
    /\ cookies' = (name :> "token") @@ cookies
    /\ ret' = ClientCall("cookies.set", name, <<>>, NoResponse, Ok(<<>>))
    /\ UNCHANGED nrequests
    /\ UNCHANGED helperVars

\* api.session.cookies.clear() by the caller
CookiesClear ==
    /\ cookies' = EmptyDict
    /\ ret' = ClientCall("cookies.clear", <<>>, <<>>, NoResponse, Ok(<<>>))
    /\ UNCHANGED nrequests
    /\ UNCHANGED helperVars

-----------------------------------------------------------------------------
(* Inputs of the client *)

CookieNames == {"SAMSI", "lang"}

\* what a response may set: nothing, or the session cookie
SetCookies == {EmptyDict, ("SAMSI" :> "id")}

Statuses == {200, 302, 404, 500}

PatientIds == {<<"p", "1">>, <<"p", "2">>}

\* the answer to a login: no body is read
LoginResponses ==
    {[status |-> st, cookies |-> c, json |-> FALSE, data |-> <<>>] :
        st \in Statuses, c \in SetCookies}

\* the records a by-id export may hold
PatientRecords ==
    {[subject |-> [id |-> p]] : p \in PatientIds}
        \cup {[subject |-> [id |-> p], phenotypicFeatures |-> <<>>, diseases |-> <<>>] :
                p \in PatientIds}
        \cup {EmptyDict, [subject |-> EmptyDict]}

RecordResponses ==
    {[status |-> st, cookies |-> c, json |-> TRUE, data |-> r] :
        st \in Statuses, c \in SetCookies, r \in PatientRecords}
        \cup LoginResponses

ListResponses ==
    {[status |-> st, cookies |-> c, json |-> TRUE, data |-> l] :
        st \in Statuses, c \in SetCookies,
        l \in {<<>>, <<[subject |-> [id |-> <<"p", "1">>]]>>}}
        \cup LoginResponses

Names == {<<"u">>, <<"p", "w">>}

\* what a line of a credentials file may hold before its newline
FileLines == {<<"u">>, <<" ", "p", "w", " ">>, <<>>}

\* the lines one after the other, each ended by a newline but, when the file
\* does not end in one, the last
RECURSIVE FileText(_, _)
FileText(ls, ended) ==
    IF ls = <<>> THEN <<>>
    ELSE IF Len(ls) = 1 /\ ~ended THEN ls[1]
    ELSE ls[1] \o <<"\n">> \o FileText(Tail(ls), ended)

\* a credentials file: unreadable, or readable with this text
Files ==
    {[readable |-> FALSE, text |-> <<>>]}
        \cup {[readable |-> TRUE, text |-> FileText(ls, ended)] :
                ls \in SeqsUpTo(FileLines, MaxLines), ended \in BOOLEAN}

NextClient ==
    \/ \E username \in Names, password \in Names, resp \in LoginResponses :
          LoginWithUsername(username, password, resp)
    \/ \E file \in Files : LoginWithCredentialsFile(file, LoginResponses)
    \/ \E resp \in ListResponses : GetPhenopackets(resp)
    \/ \E patient_id \in PatientIds, resp \in RecordResponses :
          GetPhenopacket(patient_id, resp)
    \/ ReadLoggedIn
    \/ \E name \in CookieNames : CookiesSet(name)
    \/ CookiesClear

\* no helper is called: the heap stays empty
HelpersIdle ==
    /\ dicts = EmptyDict
    /\ lists = EmptyDict
    /\ prev = NoCall
    /\ last = NoCall

InitClient == ClientInit /\ HelpersIdle

SpecClient == InitClient /\ [][NextClient]_vars

-----------------------------------------------------------------------------
(* The term extractors *)

SEP == <<";", " ">>

DASH == <<" ", "-", " ">>

EXCLUDED_SUFFIX == <<" ", "(", "e", "x", "c", "l", "u", "d", "e", "d", ")">>

\* f"{feature['type']['id']} - {feature['type']['label']}"
pheno_string(feature) == feature.type.id \o DASH \o feature.type.label

\* f"{disease['term']['id']} - {disease['term']['label']}"
disease_string(disease) == disease.term.id \o DASH \o disease.term.label

\* the loop with "continue" replaced by appending an empty string
RECURSIVE pheno_strings_gap(_, _, _)
pheno_strings_gap(phenotypes, ignore_excluded, acc) ==
    IF phenotypes = <<>> THEN acc
    ELSE LET feature == Head(phenotypes)
             rest    == Tail(phenotypes)
         IN  IF truthy(get(feature, "excluded", 0))
             THEN IF ignore_excluded
                  THEN pheno_strings_gap(rest, ignore_excluded, Append(acc, <<>>))
                  ELSE pheno_strings_gap(rest, ignore_excluded,
                           Append(acc, feature.type.id \o DASH \o feature.type.label
                                       \o EXCLUDED_SUFFIX))
             ELSE pheno_strings_gap(rest, ignore_excluded,
                      Append(acc, feature.type.id \o DASH \o feature.type.label))

\* the for loop of extract_HPO_terms_from_phenopacket: phenotypes still to visit,
\* pheno_strings collected so far
RECURSIVE pheno_strings(_, _, _)
pheno_strings(phenotypes, ignore_excluded, acc) ==
    IF phenotypes = <<>> THEN acc
    ELSE LET feature == Head(phenotypes)
             rest    == Tail(phenotypes)
         IN  IF truthy(get(feature, "excluded", 0))
             THEN IF ignore_excluded
                  THEN pheno_strings(rest, ignore_excluded, acc)
                  ELSE pheno_strings(rest, ignore_excluded,
                           Append(acc, pheno_string(feature) \o EXCLUDED_SUFFIX))
             ELSE pheno_strings(rest, ignore_excluded,
                      Append(acc, pheno_string(feature)))

\* the for loop of extract_disease_terms_from_phenopacket
RECURSIVE disease_strings(_, _, _)
disease_strings(diseases, ignore_excluded, acc) ==
    IF diseases = <<>> THEN acc
    ELSE LET disease == Head(diseases)
             rest    == Tail(diseases)
         IN  IF truthy(get(disease, "excluded", 0))
             THEN IF ignore_excluded
                  THEN disease_strings(rest, ignore_excluded, acc)
                  ELSE disease_strings(rest, ignore_excluded,
                           Append(acc, disease_string(disease) \o EXCLUDED_SUFFIX))
             ELSE disease_strings(rest, ignore_excluded,
                      Append(acc, disease_string(disease)))

\* phenopacket["subject"]["id"], read only to word the warning
sams_entry(phenopacket) ==
    IF "subject" \in DOMAIN phenopacket /\ "id" \in DOMAIN phenopacket["subject"]
    THEN Ok(phenopacket["subject"]["id"])
    ELSE Raise("KeyError")

extract_HPO_terms_from_phenopacket(phenopacket, ignore_excluded) ==
    IF "phenotypicFeatures" \notin DOMAIN phenopacket
    THEN IF sams_entry(phenopacket).raised # "None"
         THEN Raise("KeyError")
         ELSE Ok(<<>>)
    ELSE Ok(join(SEP, pheno_strings(phenopacket["phenotypicFeatures"],
                                    ignore_excluded, <<>>)))

extract_disease_terms_from_phenopacket(phenopacket, ignore_excluded) ==
    IF "diseases" \notin DOMAIN phenopacket
    THEN IF sams_entry(phenopacket).raised # "None"
         THEN Raise("KeyError")
         ELSE Ok(<<>>)
    ELSE Ok(join(SEP, disease_strings(phenopacket["diseases"],
                                      ignore_excluded, <<>>)))

-----------------------------------------------------------------------------
(* The heap the helpers work on *)

ListKeys == {"phenotypicFeatures", "diseases"}

\* the dict at address d as a reader sees it: list keys followed to their lists
View(d) ==
    [k \in DOMAIN dicts[d] |->
        IF k \in ListKeys THEN lists[dicts[d][k]] ELSE dicts[d][k]]

\* extract_HPO_terms_from_phenopacket(d, ignore_excluded) called on a heap dict
CallExtractHPO(d, ignore_excluded) ==
    /\ prev' = last
    /\ last' = Call("extract_HPO", d, ignore_excluded,
                    extract_HPO_terms_from_phenopacket(View(d), ignore_excluded),
                    <<>>)
    /\ UNCHANGED <<dicts, lists>>
    /\ UNCHANGED clientVars

\* extract_disease_terms_from_phenopacket(d, ignore_excluded) called on a heap dict
CallExtractDisease(d, ignore_excluded) ==
    /\ prev' = last
    /\ last' = Call("extract_disease", d, ignore_excluded,
                    extract_disease_terms_from_phenopacket(View(d), ignore_excluded),
                    <<>>)
    /\ UNCHANGED <<dicts, lists>>
    /\ UNCHANGED clientVars

-----------------------------------------------------------------------------
(* The onset filter *)

EARLIEST == <<"e", "a", "r", "l", "i", "e", "s", "t">>

LATEST == <<"l", "a", "t", "e", "s", "t">>

\* entry["onset"]["timestamp"] can be read
has_onset(entry) == "onset" \in DOMAIN entry /\ "timestamp" \in DOMAIN entry.onset

\* the generator feature["onset"]["timestamp"] for feature in features
timestamps(features) == [i \in 1..Len(features) |-> features[i].onset.timestamp]

\* compute_onset_timestamp that takes the minimum with a default when there is
\* nothing to take it of
compute_onset_timestamp_default(phenopacket, onset) ==
    LET features == get(phenopacket, "phenotypicFeatures", <<>>)
    IN  IF onset \in {EARLIEST, LATEST}
        THEN IF \E i \in 1..Len(features) : ~has_onset(features[i])
             THEN Raise("KeyError")
             ELSE IF features = <<>> THEN Ok(<<>>)
             ELSE IF onset = EARLIEST THEN Ok(py_min(timestamps(features)))
             ELSE Ok(py_max(timestamps(features)))
        ELSE Ok(onset)

\* compute_onset_timestamp that takes the minimum / maximum over the diseases too
compute_onset_timestamp_all(phenopacket, onset) ==
    LET entries == get(phenopacket, "phenotypicFeatures", <<>>)
                       \o get(phenopacket, "diseases", <<>>)
    IN  IF onset \in {EARLIEST, LATEST}
        THEN IF \E i \in 1..Len(entries) : ~has_onset(entries[i])
             THEN Raise("KeyError")
             ELSE IF get(phenopacket, "phenotypicFeatures", <<>>) = <<>>
             THEN Raise("ValueError")
             ELSE IF onset = EARLIEST THEN Ok(py_min(timestamps(entries)))
             ELSE Ok(py_max(timestamps(entries)))
        ELSE Ok(onset)

\* the inner function compute_onset_timestamp, over the enclosing phenopacket
compute_onset_timestamp(phenopacket, onset) ==
    LET features == get(phenopacket, "phenotypicFeatures", <<>>)
    IN  IF onset \in {EARLIEST, LATEST}
        THEN IF \E i \in 1..Len(features) : ~has_onset(features[i])
             THEN Raise("KeyError")
             ELSE IF features = <<>> THEN Raise("ValueError")
             ELSE IF onset = EARLIEST THEN Ok(py_min(timestamps(features)))
             ELSE Ok(py_max(timestamps(features)))
        ELSE Ok(onset)

\* the filtering loop with the comparison turned around
RECURSIVE filtered_unequal(_, _, _)
filtered_unequal(entries, onset_timestamp, acc) ==
    IF entries = <<>> THEN acc
    ELSE IF Head(entries).onset.timestamp # onset_timestamp
         THEN filtered_unequal(Tail(entries), onset_timestamp, Append(acc, Head(entries)))
         ELSE filtered_unequal(Tail(entries), onset_timestamp, acc)

\* either filtering loop: entries still to visit, entries kept so far
RECURSIVE filtered(_, _, _)
filtered(entries, onset_timestamp, acc) ==
    IF entries = <<>> THEN acc
    ELSE IF Head(entries).onset.timestamp = onset_timestamp
         THEN filtered(Tail(entries), onset_timestamp, Append(acc, Head(entries)))
         ELSE filtered(Tail(entries), onset_timestamp, acc)

\* filered_phenotypes after its loop
filered_phenotypes(phenopacket, onset_timestamp) ==
    filtered(get(phenopacket, "phenotypicFeatures", <<>>), onset_timestamp, <<>>)

\* filtered_diseases after its loop
filtered_diseases(phenopacket, onset_timestamp) ==
    filtered(get(phenopacket, "diseases", <<>>), onset_timestamp, <<>>)

\* a loop of the filter reads the onset of an entry that has none
onset_missing(phenopacket) ==
    \E k \in ListKeys \cap DOMAIN phenopacket :
        \E i \in 1..Len(phenopacket[k]) : ~has_onset(phenopacket[k][i])

\* the next free list address
fresh_list == Cardinality(DOMAIN lists) + 1

\* the two assignments that filter the lists where they are instead of
\* binding new ones
rebind_in_place(d, phenotypes, diseases) ==
    [dicts |-> [dicts EXCEPT ![d] =
                   (IF "phenotypicFeatures" \in DOMAIN dicts[d] THEN EmptyDict
                    ELSE ("phenotypicFeatures" :> fresh_list))
                   @@ (IF "diseases" \in DOMAIN dicts[d] THEN EmptyDict
                       ELSE ("diseases" :> fresh_list + 1))
                   @@ dicts[d]],
     lists |-> [a \in DOMAIN lists |->
                   IF "phenotypicFeatures" \in DOMAIN dicts[d]
                        /\ a = dicts[d]["phenotypicFeatures"] THEN phenotypes
                   ELSE IF "diseases" \in DOMAIN dicts[d]
                        /\ a = dicts[d]["diseases"] THEN diseases
                   ELSE lists[a]]
               @@ (fresh_list :> phenotypes) @@ ((fresh_list + 1) :> diseases)]

\* phenopacket["phenotypicFeatures"] = filered_phenotypes and
\* phenopacket["diseases"] = filtered_diseases: two new lists, bound in dict d
rebind(d, phenotypes, diseases) ==
    [dicts |-> [dicts EXCEPT ![d] =
                   ("phenotypicFeatures" :> fresh_list)
                   @@ ("diseases" :> fresh_list + 1) @@ dicts[d]],
     lists |-> lists @@ (fresh_list :> phenotypes) @@ ((fresh_list + 1) :> diseases)]

\* filter_phenopacket_by_onset on the dict at address d: its outcome and the heap
\* it leaves
filter_phenopacket_by_onset(d, input_onset_timestamp) ==
    LET phenopacket == View(d)
        onset_timestamp == compute_onset_timestamp(phenopacket, input_onset_timestamp)
    IN  IF onset_timestamp.raised # "None"
        THEN [outcome |-> Raise(onset_timestamp.raised), dicts |-> dicts, lists |-> lists]
        ELSE IF onset_missing(phenopacket)
        THEN [outcome |-> Raise("KeyError"), dicts |-> dicts, lists |-> lists]
        ELSE LET heap == rebind(d,
                     filered_phenotypes(phenopacket, onset_timestamp.value),
                     filtered_diseases(phenopacket, onset_timestamp.value))
             IN  [outcome |-> Ok(d), dicts |-> heap.dicts, lists |-> heap.lists]

\* filter_phenopacket_by_onset(d, input_onset_timestamp) called on a heap dict
CallFilter(d, input_onset_timestamp) ==
    /\ Cardinality(DOMAIN lists) + 2 <= MaxLists
    /\ LET done == filter_phenopacket_by_onset(d, input_onset_timestamp)
       IN  /\ dicts' = done.dicts
           /\ lists' = done.lists
           /\ last' = Call("filter", d, input_onset_timestamp, done.outcome, View(d))
    /\ prev' = last
    /\ UNCHANGED clientVars

\* dict(phenopacket): a shallow copy, the caller's way to keep the original
CallCopy(d) ==
    /\ Cardinality(DOMAIN dicts) < MaxDicts
    /\ LET new == Cardinality(DOMAIN dicts) + 1
       IN  /\ dicts' = dicts @@ (new :> dicts[d])
           /\ last' = Call("copy", d, 0, Ok(new), <<>>)
    /\ prev' = last
    /\ UNCHANGED lists
    /\ UNCHANGED clientVars

-----------------------------------------------------------------------------
(* Inputs of the extractors *)

Ids == {<<"H", "1">>}

Labels == {<<"A">>, <<"B">>,
           <<"A", " ", "(", "e", "x", "c", "l", "u", "d", "e", "d", ")">>,
           <<"A", ";", " ", "B">>}

\* the "excluded" key: absent, 0 or 1
ExcludedParts == {EmptyDict, [excluded |-> 0], [excluded |-> 1]}

ExtractFeatures ==
    {[type |-> [id |-> i, label |-> l]] @@ e :
        i \in Ids, l \in Labels, e \in ExcludedParts}

ExtractDiseases ==
    {[term |-> [id |-> i, label |-> l]] @@ e :
        i \in Ids, l \in Labels, e \in ExcludedParts}

SubjectParts == {EmptyDict, [subject |-> EmptyDict],
                 [subject |-> [id |-> <<"p", "1">>]]}

\* One record on the heap: one of its two lists is drawn in full, the other is
\* absent or empty.
InitExtract ==
    /\ \E s \in SubjectParts, rich \in ListKeys, absent \in BOOLEAN, other \in 0..1 :
        \E xs \in SeqsUpTo(IF rich = "diseases" THEN ExtractDiseases
                           ELSE ExtractFeatures, MaxTerms) :
            LET poor == CHOOSE k \in ListKeys : k # rich
                richPart == IF absent THEN EmptyDict ELSE (rich :> 1)
                poorPart == IF other = 0 THEN EmptyDict ELSE (poor :> 2)
            IN  /\ dicts = (1 :> (s @@ richPart @@ poorPart))
                /\ lists = IF absent
                           THEN IF other = 0 THEN EmptyDict ELSE (2 :> <<>>)
                           ELSE IF other = 0 THEN (1 :> xs)
                                ELSE (1 :> xs) @@ (2 :> <<>>)
                /\ (absent => xs = <<>>)
    /\ prev = NoCall
    /\ last = NoCall
    /\ ClientInit

NextExtract ==
    \/ \E d \in DOMAIN dicts, ignore_excluded \in BOOLEAN :
          CallExtractHPO(d, ignore_excluded)
    \/ \E d \in DOMAIN dicts, ignore_excluded \in BOOLEAN :
          CallExtractDisease(d, ignore_excluded)

SpecExtract == InitExtract /\ [][NextExtract]_vars

-----------------------------------------------------------------------------
(* Inputs of the onset filter *)

Timestamps == {<<"9">>, <<"1", "0">>}

\* the selectors tried: the two tokens, the timestamps, and one no entry has
Selectors == {EARLIEST, LATEST} \cup Timestamps \cup {<<"2">>}

FilterIds == {<<"H", "1">>, <<"H", "2">>}

FilterFeatures ==
    {[type |-> [id |-> i, label |-> <<"A">>], onset |-> [timestamp |-> t]] :
        i \in FilterIds, t \in Timestamps}

FilterDiseases ==
    {[term |-> [id |-> i, label |-> <<"D">>], onset |-> [timestamp |-> t]] :
        i \in FilterIds, t \in Timestamps}

TheSubject == [subject |-> [id |-> <<"p", "1">>]]

\* a list key of the record drawn: missing, or present with these items
Absent == [present |-> FALSE, items |-> <<>>]

Present(items) == [present |-> TRUE, items |-> items]

ListsUpTo(S, n) == {Present(xs) : xs \in SeqsUpTo(S, n)} \cup {Absent}

\* one dict on the heap whose lists are those given

HeapWith(features, diseases) ==
    /\ dicts = (1 :> (TheSubject
                      @@ (IF features.present THEN ("phenotypicFeatures" :> 1)
                          ELSE EmptyDict)
                      @@ (IF diseases.present
                          THEN ("diseases" :> (IF features.present THEN 2 ELSE 1))
                          ELSE EmptyDict)))
    /\ lists = IF features.present
               THEN IF diseases.present
                    THEN (1 :> features.items) @@ (2 :> diseases.items)
                    ELSE (1 :> features.items)
               ELSE IF diseases.present THEN (1 :> diseases.items) ELSE EmptyDict

InitFilter ==
    /\ \E features \in ListsUpTo(FilterFeatures, MaxLen),
          diseases \in ListsUpTo(FilterDiseases, MaxDiseases) :
            HeapWith(features, diseases)
    /\ prev = NoCall
    /\ last = NoCall
    /\ ClientInit

NextFilter ==
    \E d \in DOMAIN dicts, input_onset_timestamp \in Selectors :
        CallFilter(d, input_onset_timestamp)

SpecFilter == InitFilter /\ [][NextFilter]_vars

\* the records of the frame: few entries, every helper and the caller's copy
FrameFeatures ==
    {[type |-> [id |-> <<"H", "1">>, label |-> <<"A">>],
      onset |-> [timestamp |-> <<"9">>]],
     [type |-> [id |-> <<"H", "2">>, label |-> <<"B">>], excluded |-> 1,
      onset |-> [timestamp |-> <<"1", "0">>]]}

FrameDiseases ==
    {[term |-> [id |-> <<"O", "1">>, label |-> <<"D">>],
      onset |-> [timestamp |-> <<"9">>]]}

InitFrame ==
    /\ \E features \in ListsUpTo(FrameFeatures, 2),
          diseases \in ListsUpTo(FrameDiseases, 1) :
            HeapWith(features, diseases)
    /\ prev = NoCall
    /\ last = NoCall
    /\ ClientInit

NextFrame ==
    \/ \E d \in DOMAIN dicts, input_onset_timestamp \in {EARLIEST, <<"9">>} :
          CallFilter(d, input_onset_timestamp)
    \/ \E d \in DOMAIN dicts : CallCopy(d)
    \/ \E d \in DOMAIN dicts, ignore_excluded \in BOOLEAN :
          CallExtractHPO(d, ignore_excluded)
    \/ \E d \in DOMAIN dicts, ignore_excluded \in BOOLEAN :
          CallExtractDisease(d, ignore_excluded)

SpecFrame == InitFrame /\ [][NextFrame]_vars

-----------------------------------------------------------------------------
(* C1: the by-id fetch checks the subject *)

HasSubjectId(record) == "subject" \in DOMAIN record /\ "id" \in DOMAIN record.subject

\* a 2xx status
Success(status) == 200 <= status /\ status <= 299

\* the server answered a by-id fetch with a success status and a record that
\* names its subject
RecordFetched ==
    /\ ret.op = "get_phenopacket"
    /\ Success(ret.response.status)
    /\ ret.response.json
    /\ HasSubjectId(ret.response.data)

\* C1: for every requested patientId and every record the server returns with
\* a success status, getPhenopacket returns that record if and only if
\* record.subject.id equals patientId; when they differ it fails with the
\* consistency error (Python's RuntimeError) and returns no record.
C1_ByIdChecksSubject ==
    RecordFetched =>
        /\ ret.raised = "None" <=> ret.response.data.subject.id = ret.args
        /\ ret.raised = "None" => ret.value = ret.response.data
        /\ ret.response.data.subject.id # ret.args
              => (ret.raised = "RuntimeError" /\ ret.value = <<>>)

\* p1 was asked for and the record of p2 came back
C1_Witness ==
    /\ RecordFetched
    /\ ret.args = <<"p", "1">>
    /\ ret.response.data.subject.id = <<"p", "2">>
    /\ ret.raised = "RuntimeError"

-----------------------------------------------------------------------------
(* C2: isLoggedIn is the presence of the SAMSI cookie *)

LoggedInIsTheCookie ==
    /\ loggedIn <=> (\E name \in DOMAIN cookies : name = "SAMSI")
    /\ (ret.op = "none" /\ nrequests = 0) => ~loggedIn
    /\ (ret.op = "cookies.set" /\ ret.args = "SAMSI") => loggedIn
    /\ ret.op = "cookies.clear" => ~loggedIn
    /\ ret.op = "loggedIn" =>
          /\ ret.value = ("SAMSI" \in DOMAIN cookies)
          /\ ret.sent = <<>>

\* a step that reads isLoggedIn sends nothing and leaves the jar as it is
ReadChangesNothing ==
    ret'.op = "loggedIn" => (cookies' = cookies /\ nrequests' = nrequests)

\* C2: isLoggedIn is true exactly when the cookie store holds a cookie named
\* SAMSI: false on a new client, true once the cookie is set directly, false
\* once the cookies are cleared; reading it sends no request and changes no
\* state.
C2_LoggedInIsSentinel ==
    /\ []LoggedInIsTheCookie
    /\ [][ReadChangesNothing]_vars

\* isLoggedIn was read as true on a client that never sent a request
C2_Witness ==
    /\ ret.op = "loggedIn"
    /\ ret.value = TRUE
    /\ nrequests = 0
    /\ "lang" \in DOMAIN cookies

-----------------------------------------------------------------------------
(* C3: how a login ends *)

\* a login call that got as far as its request
LoginAnswered ==
    /\ ret.op \in {"login_with_username", "login_with_credentials_file"}
    /\ ret.sent # <<>>

\* a 4xx or 5xx status
ErrorStatus(status) == 400 <= status /\ status <= 599

\* C3 as stated: a login fails with HttpError on a non-success status, and
\* otherwise the cookie store holds SAMSI, so isLoggedIn is true whenever login
\* has returned without error.
C3_AsStated ==
    LoginAnswered =>
        /\ ErrorStatus(ret.response.status) => ret.raised = "HTTPError"
        /\ ret.raised \in {"None", "HTTPError"}
        /\ ret.raised = "None" => loggedIn

\* C3 amended: a login that reaches the server fails with HttpError exactly on
\* a 4xx / 5xx status and otherwise returns without error; the cookie store
\* holds SAMSI afterwards whenever the response set it.
C3_LoginOutcome ==
    LoginAnswered =>
        /\ ret.raised = "HTTPError" <=> ErrorStatus(ret.response.status)
        /\ ret.raised = "None" <=> ~ErrorStatus(ret.response.status)
        /\ "SAMSI" \in DOMAIN ret.response.cookies => loggedIn

\* a login from a credentials file was answered 200 with the session cookie
C3_Witness ==
    /\ LoginAnswered
    /\ ret.op = "login_with_credentials_file"
    /\ ret.response.status = 200
    /\ "SAMSI" \in DOMAIN ret.response.cookies
    /\ ret.raised = "None"
    /\ loggedIn

-----------------------------------------------------------------------------
(* C4: login from a credentials file *)

\* C4: for every readable credentials file of at least two lines,
\* loginFromFile performs exactly one login, with the first line as username
\* and the second as password, each trimmed; it fails with the format error
\* (Python's ValueError), sending nothing, only when the file has fewer than
\* two lines.
C4_AsStated ==
    (ret.op = "login_with_credentials_file" /\ ret.args.readable) =>
        LET lines == readlines(ret.args.text, <<>>)
        IN  /\ Len(lines) >= 2 =>
                  /\ Len(ret.sent) = 1
                  /\ ret.sent[1].data = [email |-> strip(lines[1]),
                                         password |-> strip(lines[2])]
            /\ ret.raised = "ValueError" => (Len(lines) < 2 /\ ret.sent = <<>>)

-----------------------------------------------------------------------------
(* C5: what the extractors return *)

\* the items under a list key, none when the key is missing
Items(record, key) == IF key \in DOMAIN record THEN record[key] ELSE <<>>

IsExcluded(entry) == "excluded" \in DOMAIN entry /\ entry.excluded # 0

\* "{id} - {label}", with " (excluded)" after it where asked for
TermText(entry, field, tagged) ==
    entry[field].id \o <<" ", "-", " ">> \o entry[field].label
        \o (IF tagged THEN EXCLUDED_SUFFIX ELSE <<>>)

\* the texts of the entries that are shown, in list order
ShownTexts(entries, field, ignoreExcluded) ==
    LET kept == SelectSeq(entries, LAMBDA e : ~(ignoreExcluded /\ IsExcluded(e)))
    IN  [i \in 1..Len(kept) |-> TermText(kept[i], field, IsExcluded(kept[i]))]

\* texts with "; " between neighbours only, built from the right
RECURSIVE Joined(_)
Joined(texts) ==
    IF texts = <<>> THEN <<>>
    ELSE IF Len(texts) = 1 THEN texts[1]
    ELSE Joined(SubSeq(texts, 1, Len(texts) - 1)) \o <<";", " ">> \o texts[Len(texts)]

ExtractorContract(call, key, field) ==
    LET record == View(call.rec)
    IN  IF key \notin DOMAIN record
        THEN HasSubjectId(record) => (call.raised = "None" /\ call.value = <<>>)
        ELSE /\ call.raised = "None"
             /\ call.value = Joined(ShownTexts(record[key], field, call.arg))
             /\ (record[key] = <<>> => call.value = <<>>)

\* C5: each extractor returns "" when its list key is absent (and subject.id is
\* present) or its list is empty, and otherwise the "{id} - {label}" texts of
\* the entries in list order, joined by "; ", where an excluded entry is
\* skipped under ignoreExcluded and carries " (excluded)" otherwise.
C5_ExtractorsFormat ==
    /\ last.op = "extract_HPO" => ExtractorContract(last, "phenotypicFeatures", "type")
    /\ last.op = "extract_disease" => ExtractorContract(last, "diseases", "term")

\* an extractor has shown a tagged entry after a plain one
C5_Witness ==
    /\ last.op = "extract_disease"
    /\ last.arg = FALSE
    /\ "diseases" \in DOMAIN View(last.rec)
    /\ Len(View(last.rec).diseases) = 2
    /\ ~IsExcluded(View(last.rec).diseases[1])
    /\ IsExcluded(View(last.rec).diseases[2])
    /\ last.value = <<"H", "1", " ", "-", " ", "B", ";", " ",
                      "H", "1", " ", "-", " ", "A",
                      " ", "(", "e", "x", "c", "l", "u", "d", "e", "d", ")">>

-----------------------------------------------------------------------------
(* C6: the two modes of extractPhenotypeTerms compared as strings *)

StartsWith(s, p) == Len(s) >= Len(p) /\ SubSeq(s, 1, Len(p)) = p

EndsWith(s, p) == Len(s) >= Len(p) /\ SubSeq(s, Len(s) - Len(p) + 1, Len(s)) = p

Contains(s, p) == \E i \in 1..Len(s) : StartsWith(SubSeq(s, i, Len(s)), p)

\* s cut at every "; ", scanning from the left; cur is the segment being read
RECURSIVE Segments(_, _)
Segments(s, cur) ==
    IF s = <<>> THEN <<cur>>
    ELSE IF StartsWith(s, <<";", " ">>)
         THEN <<cur>> \o Segments(SubSeq(s, 3, Len(s)), <<>>)
         ELSE Segments(Tail(s), Append(cur, Head(s)))

\* s without its "(excluded)"-tagged segments and their separators
WithoutTagged(s) ==
    Joined(SelectSeq(Segments(s, <<>>), LAMBDA seg : ~EndsWith(seg, EXCLUDED_SUFFIX)))

\* the last two calls are extractPhenotypeTerms(r, false) then (r, true)
BothModesCalled ==
    /\ prev.op = "extract_HPO" /\ last.op = "extract_HPO"
    /\ prev.rec = last.rec
    /\ prev.arg = FALSE /\ last.arg = TRUE
    /\ prev.raised = "None" /\ last.raised = "None"

\* C6 as stated: for all feature sequences the ignoreExcluded=true string is the
\* ignoreExcluded=false string with every "(excluded)"-tagged segment and its
\* separator removed.
C6_AsStated == BothModesCalled => last.value = WithoutTagged(prev.value)

\* no text holds a "; " of its own, and only excluded entries end in the tag
PlainTexts(features) ==
    \A i \in 1..Len(features) :
        /\ ~Contains(TermText(features[i], "type", IsExcluded(features[i])), <<";", " ">>)
        /\ IsExcluded(features[i])
           \/ ~EndsWith(TermText(features[i], "type", FALSE), EXCLUDED_SUFFIX)

\* C6 amended: the relation holds for every feature sequence in which no
\* entry's text contains "; " and no entry that is not excluded has a text
\* ending in " (excluded)".
C6_PlainTexts ==
    (BothModesCalled /\ PlainTexts(Items(View(last.rec), "phenotypicFeatures")))
        => last.value = WithoutTagged(prev.value)

\* both modes were called on an excluded entry followed by a plain one
C6_Witness ==
    /\ BothModesCalled
    /\ "phenotypicFeatures" \in DOMAIN View(last.rec)
    /\ PlainTexts(View(last.rec).phenotypicFeatures)
    /\ Len(View(last.rec).phenotypicFeatures) = 2
    /\ IsExcluded(View(last.rec).phenotypicFeatures[1])
    /\ ~IsExcluded(View(last.rec).phenotypicFeatures[2])
    /\ last.value = <<"H", "1", " ", "-", " ", "B">>
    /\ Len(prev.value) > Len(last.value)

-----------------------------------------------------------------------------
(* C7: what filterByOnset leaves in the two lists *)

OnsetOf(entry) == entry.onset.timestamp

\* a sorts before b as a string: at the first place where they differ a has
\* ended or has the smaller character
Before(a, b) ==
    \E k \in 1..Len(b) :
        /\ \A j \in 1..(k - 1) : j <= Len(a) /\ a[j] = b[j]
        /\ k > Len(a) \/ ord(a[k]) < ord(b[k])

FeatureOnsets(record) ==
    {OnsetOf(Items(record, "phenotypicFeatures")[i]) :
        i \in 1..Len(Items(record, "phenotypicFeatures"))}

\* the timestamp a selector stands for on a record with features
Target(record, selector) ==
    IF selector = EARLIEST
    THEN CHOOSE t \in FeatureOnsets(record) :
             \A u \in FeatureOnsets(record) : ~Before(u, t)
    ELSE IF selector = LATEST
    THEN CHOOSE t \in FeatureOnsets(record) :
             \A u \in FeatureOnsets(record) : ~Before(t, u)
    ELSE selector

AtOnset(entries, target) == SelectSeq(entries, LAMBDA e : OnsetOf(e) = target)

FilterSucceeded(call) == call.op = "filter" /\ call.raised = "None"

\* C7: when filterByOnset succeeds, phenotypicFeatures is the subsequence of the
\* original features whose onset is the target (the selector itself, or the
\* least / greatest feature onset), diseases is the subsequence of the original
\* diseases at that same target, and a missing list counts as an empty one: with
\* a literal selector the call succeeds and leaves an empty list for it.
C7_FilterKeepsTarget ==
    last.op = "filter" =>
        /\ FilterSucceeded(last) =>
              LET target == Target(last.before, last.arg)
              IN  /\ View(last.rec).phenotypicFeatures
                       = AtOnset(Items(last.before, "phenotypicFeatures"), target)
                  /\ View(last.rec).diseases
                       = AtOnset(Items(last.before, "diseases"), target)
        /\ last.arg \notin {EARLIEST, LATEST} =>
              /\ FilterSucceeded(last)
              /\ \A k \in ListKeys \ DOMAIN last.before : View(last.rec)[k] = <<>>

\* "earliest" has kept the first and the third of three features, and dropped a
\* disease with another onset
C7_Witness ==
    /\ FilterSucceeded(last)
    /\ last.arg = EARLIEST
    /\ Len(Items(last.before, "phenotypicFeatures")) = 3
    /\ View(last.rec).phenotypicFeatures
         = <<last.before.phenotypicFeatures[1], last.before.phenotypicFeatures[3]>>
    /\ OnsetOf(last.before.phenotypicFeatures[2]) = <<"9">>
    /\ Len(Items(last.before, "diseases")) = 2
    /\ View(last.rec).diseases = <<last.before.diseases[2]>>

-----------------------------------------------------------------------------
(* C8: "earliest" / "latest" with no features *)

\* C8: filterByOnset(record, "earliest" / "latest") fails with the empty-input
\* error (Python's ValueError) whenever phenotypicFeatures is absent or empty,
\* whatever the diseases are.
C8_NoFeaturesFails ==
    (/\ last.op = "filter"
     /\ last.arg \in {EARLIEST, LATEST}
     /\ Items(last.before, "phenotypicFeatures") = <<>>)
        => last.raised = "ValueError"

\* "latest" was asked of a record without the features key and with diseases
C8_Witness ==
    /\ last.op = "filter"
    /\ last.arg = LATEST
    /\ "phenotypicFeatures" \notin DOMAIN last.before
    /\ Len(Items(last.before, "diseases")) = 2
    /\ last.raised = "ValueError"

-----------------------------------------------------------------------------
(* C9: filtering by "earliest" twice *)

TwiceEarliest ==
    /\ prev.op = "filter" /\ last.op = "filter"
    /\ prev.arg = EARLIEST /\ last.arg = EARLIEST
    /\ prev.rec = last.rec
    /\ Items(prev.before, "phenotypicFeatures") # <<>>

\* C9: on a record with features, filterByOnset(., "earliest") applied to the
\* result of filterByOnset(r, "earliest") succeeds, leaves phenotypicFeatures
\* and diseases as the first application left them, and derives the same
\* earliest timestamp.
C9_EarliestIdempotent ==
    TwiceEarliest =>
        /\ FilterSucceeded(prev) /\ FilterSucceeded(last)
        /\ View(last.rec).phenotypicFeatures = last.before.phenotypicFeatures
        /\ View(last.rec).diseases = last.before.diseases
        /\ Target(last.before, EARLIEST) = Target(prev.before, EARLIEST)

\* the first application dropped a feature and a disease, the second nothing
C9_Witness ==
    /\ TwiceEarliest
    /\ FilterSucceeded(last)
    /\ Len(Items(prev.before, "phenotypicFeatures")) = 3
    /\ Len(last.before.phenotypicFeatures) = 2
    /\ Len(View(last.rec).phenotypicFeatures) = 2
    /\ Len(Items(prev.before, "diseases")) = 2
    /\ Len(View(last.rec).diseases) = 1

-----------------------------------------------------------------------------
(* C10: what the helpers leave alone *)

Extractors == {"extract_HPO", "extract_disease"}

\* the same extractor call made twice in a row gives the same outcome
SameCallSameOutput ==
    (/\ last.op \in Extractors
     /\ prev.op = last.op /\ prev.rec = last.rec /\ prev.arg = last.arg)
        => (prev.raised = last.raised /\ prev.value = last.value)

\* a step of an extractor changes nothing on the heap
ExtractorFrame == last'.op \in Extractors => (dicts' = dicts /\ lists' = lists)

\* a successful step of the filter on the dict at r returns r, binds its two
\* list keys to lists that did not exist before, and changes nothing else
FilterFrame ==
    FilterSucceeded(last') =>
        LET r == last'.rec
        IN  /\ last'.value = r
            /\ DOMAIN dicts' = DOMAIN dicts
            /\ DOMAIN dicts'[r] = DOMAIN dicts[r] \cup ListKeys
            /\ \A k \in DOMAIN dicts[r] \ ListKeys : dicts'[r][k] = dicts[r][k]
            /\ \A k \in ListKeys :
                  dicts'[r][k] \notin DOMAIN lists /\ dicts'[r][k] \in DOMAIN lists'
            /\ \A a \in DOMAIN lists : a \in DOMAIN lists' /\ lists'[a] = lists[a]
            /\ \A d \in DOMAIN dicts \ {r} : dicts'[d] = dicts[d] /\ View(d)' = View(d)

\* C10: the extractors leave the record as it is, so the same call twice gives
\* the same output; filterByOnset returns the record it was given and only
\* rebinds its phenotypicFeatures and diseases to new lists: every other field,
\* every list that existed and every other record (a shallow copy's original)
\* stay as they were.
C10_HelpersFrame ==
    /\ []SameCallSameOutput
    /\ [][ExtractorFrame /\ FilterFrame]_vars

\* a shallow copy was filtered and lost a feature; the original still has both
C10_Witness ==
    /\ prev.op = "copy" /\ prev.rec = 1
    /\ FilterSucceeded(last) /\ last.rec = 2 /\ last.value = 2
    /\ Len(Items(View(1), "phenotypicFeatures")) = 2
    /\ Len(Items(View(2), "phenotypicFeatures")) = 1
    /\ View(1) = last.before
    /\ View(1).subject = View(2).subject

====
